---- MODULE Spec2Model ----
(***************************************************************************)
(* Model of the job processing pipeline of backend/server.py:              *)
(* parse_prompt, ts_to_seconds, quality_to_crf, head_with_retry,           *)
(* process_job and create_job, and of the upload and billing endpoints     *)
(* that decide whether a video is cleared for create_job.                  *)
(*                                                                         *)
(* Texts are TLA+ strings; Len, SubSeq and \o act on them as on Python     *)
(* str.  Times are held in milliseconds (integers) where the code holds    *)
(* float seconds, and guard delays in tenths of a second.                  *)
(***************************************************************************)
EXTENDS Integers, Sequences, FiniteSets, TLC

(***************************************************************************)
(* Text helpers (Python str methods used by the code)                      *)
(***************************************************************************)

Min(a, b) == IF a <= b THEN a ELSE b

\* s[i] (1-based)
Char(s, i) == SubSeq(s, i, i)

\* s[k:] with k 0-based as in Python
From(s, k) == SubSeq(s, k + 1, Len(s))

\* s[:k]
Prefix(s, k) == SubSeq(s, 1, Min(Len(s), k))

RECURSIVE Rep(_, _)
\* c * n
Rep(c, n) ==
    IF n = 0 THEN ""
    ELSE LET h == Rep(c, n \div 2)
         IN  IF n % 2 = 1 THEN h \o h \o c ELSE h \o h

RECURSIVE FirstNonSpace(_, _)
FirstNonSpace(s, i) ==
    IF i > Len(s) THEN i
    ELSE IF Char(s, i) = " " THEN FirstNonSpace(s, i + 1) ELSE i

RECURSIVE LastNonSpace(_, _)
LastNonSpace(s, i) ==
    IF i < 1 THEN i
    ELSE IF Char(s, i) = " " THEN LastNonSpace(s, i - 1) ELSE i

\* str.strip()
Strip(s) ==
    LET a == FirstNonSpace(s, 1)
        b == LastNonSpace(s, Len(s))
    IN  IF a > b THEN "" ELSE SubSeq(s, a, b)

LowerChar(c) ==
    CASE c = "K" -> "k" [] c = "E" -> "e" [] c = "P" -> "p"
      [] c = "O" -> "o" [] c = "R" -> "r" [] c = "D" -> "d"
      [] c = "U" -> "u" [] c = "T" -> "t" [] c = "Q" -> "q"
      [] c = "A" -> "a" [] c = "L" -> "l" [] c = "I" -> "i"
      [] c = "Y" -> "y" [] c = "H" -> "h" [] c = "G" -> "g"
      [] c = "M" -> "m" [] c = "V" -> "v" [] c = "W" -> "w"
      [] c = "F" -> "f" [] c = "B" -> "b" [] c = "C" -> "c"
      [] c = "N" -> "n" [] c = "S" -> "s" [] c = "X" -> "x"
      [] c = "J" -> "j" [] c = "Z" -> "z"
      [] OTHER -> c

RECURSIVE LowerFrom(_, _)
LowerFrom(s, i) ==
    IF i > Len(s) THEN "" ELSE LowerChar(Char(s, i)) \o LowerFrom(s, i + 1)

\* str.lower()
Lower(s) == LowerFrom(s, 1)

\* str.startswith(p)
StartsWith(s, p) == Len(s) >= Len(p) /\ SubSeq(s, 1, Len(p)) = p

RECURSIVE SplitFrom(_, _, _, _)
SplitFrom(s, sep, i, start) ==
    IF i > Len(s) THEN << SubSeq(s, start, Len(s)) >>
    ELSE IF Char(s, i) = sep
         THEN << SubSeq(s, start, i - 1) >> \o SplitFrom(s, sep, i + 1, i + 1)
         ELSE SplitFrom(s, sep, i + 1, start)

\* str.split(sep) for a one-character separator
Split(s, sep) == SplitFrom(s, sep, 1, 1)

\* sep in s
Contains(s, sep) == \E i \in 1..Len(s) : Char(s, i) = sep

IsDigit(c) == c \in {"0", "1", "2", "3", "4", "5", "6", "7", "8", "9"}

DigitVal(c) ==
    CASE c = "0" -> 0 [] c = "1" -> 1 [] c = "2" -> 2 [] c = "3" -> 3
      [] c = "4" -> 4 [] c = "5" -> 5 [] c = "6" -> 6 [] c = "7" -> 7
      [] c = "8" -> 8 [] c = "9" -> 9

AllDigits(s) == Len(s) > 0 /\ \A i \in 1..Len(s) : IsDigit(Char(s, i))

RECURSIVE DigitsVal(_, _)
\* value of the decimal digits s[1..i]
DigitsVal(s, i) ==
    IF i = 0 THEN 0 ELSE 10 * DigitsVal(s, i - 1) + DigitVal(Char(s, i))

\* int(x) succeeds: surrounding blanks, an optional sign, decimal digits
IntOk(x) ==
    LET t == Strip(x)
        u == IF Len(t) > 0 /\ Char(t, 1) \in {"+", "-"} THEN From(t, 1) ELSE t
    IN  AllDigits(u)

\* int(x)
IntVal(x) ==
    LET t == Strip(x)
        neg == Len(t) > 0 /\ Char(t, 1) = "-"
        u == IF Len(t) > 0 /\ Char(t, 1) \in {"+", "-"} THEN From(t, 1) ELSE t
        v == DigitsVal(u, Len(u))
    IN  IF neg THEN 0 - v ELSE v

(***************************************************************************)
(* parse_prompt                                                            *)
(***************************************************************************)

NoneVal == "None"

RECURSIVE KeepSegments(_, _)
\* the segments appended for parts[i..] of one keep: clause; enumerate's
\* 0-based position i-1 gives the index (i-1)+1
KeepSegments(parts, i) ==
    IF i > Len(parts) THEN << >>
    ELSE LET part == Strip(parts[i])
             times == Split(part, "-")
             here == IF Contains(part, "-") /\ Len(times) = 2
                     THEN << [index |-> i,
                              start |-> Strip(times[1]),
                              end |-> Strip(times[2])] >>
                     ELSE << >>
         IN  here \o KeepSegments(parts, i + 1)

\* [int(x.strip()) for x in order_str.split(',')], or the old list when any
\* int() raises (bare except: pass)
OrderClause(old, order_str) ==
    LET items == Split(order_str, ",")
    IN  IF \A k \in 1..Len(items) : IntOk(items[k])
        THEN [k \in 1..Len(items) |-> IntVal(items[k])]
        ELSE old

\* [s["index"] for s in result["segments"]]
SegmentIndices(segments) == [k \in 1..Len(segments) |-> segments[k].index]

\* the body of "for line in lines": the if/elif chain on the clause keyword,
\* then the assignment of line 773, which sits inside the loop
ParseLine(result, raw) ==
    LET line == Strip(raw)
        low == Lower(line)
        r1 == IF StartsWith(low, "keep:")
              THEN [result EXCEPT !.segments =
                        @ \o KeepSegments(Split(Strip(From(line, 5)), ","), 1)]
              ELSE IF StartsWith(low, "order:")
              THEN [result EXCEPT !.order = OrderClause(@, Strip(From(line, 6)))]
              ELSE IF StartsWith(low, "output:")
              THEN [result EXCEPT !.output_format = Lower(Strip(From(line, 7)))]
              ELSE IF StartsWith(low, "quality:")
              THEN [result EXCEPT !.quality = Lower(Strip(From(line, 8)))]
              ELSE result
    IN  [r1 EXCEPT !.order = SegmentIndices(r1.segments)]

RECURSIVE ParseLines(_, _, _)
ParseLines(result, lines, k) ==
    IF k > Len(lines) THEN result
    ELSE ParseLines(ParseLine(result, lines[k]), lines, k + 1)

parse_prompt(prompt_text) ==
    ParseLines([segments |-> << >>, order |-> << >>,
                output_format |-> "mp4", quality |-> "medium"],
               Split(Strip(prompt_text), "."), 1)

\* variant: no try/except around the int() calls of line 764
ExceptPassMissing == FALSE

\* "except: pass" at lines 765-766: the bare clause catches whatever int()
\* raises
ExceptPass == TRUE

\* an order: clause of the line has an item int() rejects (ValueError)
OrderRaises(raw) ==
    LET line == Strip(raw)
        items == Split(Strip(From(line, 6)), ",")
    IN  /\ StartsWith(Lower(line), "order:")
        /\ \E k \in 1..Len(items) : ~IntOk(items[k])

\* parse_prompt(prompt_text) raises: an exception leaves the loop uncaught.
\* int() is the only call of the function that can raise on a str argument
ParseRaises(prompt_text) ==
    LET lines == Split(Strip(prompt_text), ".")
    IN  \E k \in 1..Len(lines) : OrderRaises(lines[k]) /\ ~ExceptPass

(***************************************************************************)
(* ts_to_seconds, quality_to_crf                                           *)
(***************************************************************************)

\* the text after an optional sign
Unsigned(t) ==
    IF Len(t) > 0 /\ Char(t, 1) \in {"+", "-"} THEN From(t, 1) ELSE t

OptDigits(s) == \A i \in 1..Len(s) : IsDigit(Char(s, i))

\* float(x) succeeds, for texts over digits, sign, "." and blanks: an
\* optional sign, digits with at most one ".", at least one digit
FloatOk(x) ==
    LET u == Unsigned(Strip(x))
        p == Split(u, ".")
    IN  \/ Len(p) = 1 /\ AllDigits(p[1])
        \/ /\ Len(p) = 2
           /\ OptDigits(p[1]) /\ OptDigits(p[2])
           /\ Len(p[1]) + Len(p[2]) > 0

\* the value of the unsigned text whose "."-separated fields are p, times
\* 1000; the fraction is read to the millisecond
Milli(p, frac) == 1000 * DigitsVal(p[1], Len(p[1])) + DigitsVal(frac, 3)

Signed(t, v) == IF Len(t) > 0 /\ Char(t, 1) = "-" THEN 0 - v ELSE v

FracOf(p) == IF Len(p) = 2 THEN Prefix(p[2] \o "000", 3) ELSE "000"

FloatFields(t) == Split(Unsigned(t), ".")

\* float(x) * 1000
FloatMilli(x) ==
    Signed(Strip(x), Milli(FloatFields(Strip(x)), FracOf(FloatFields(Strip(x)))))

FloatError(x) == "could not convert string to float: '" \o x \o "'"

TsOk(ms) == [ok |-> TRUE, ms |-> ms, err |-> ""]
TsErr(msg) == [ok |-> FALSE, ms |-> 0, err |-> msg]

\* variant: the three fields are weighted as two
FieldsValueNoHours(v) ==
    IF Len(v) = 1 THEN v[1] ELSE v[1] * 60 + v[2]

\* float(hh) * 3600 + float(mm) * 60 + float(ss), over the fields present
FieldsValue(v) ==
    IF Len(v) = 1 THEN v[1]
    ELSE IF Len(v) = 2 THEN v[1] * 60 + v[2]
    ELSE v[1] * 3600 + v[2] * 60 + v[3]

\* the first field, left to right, that float() rejects (0 if none)
FirstBad(parts) ==
    IF \A k \in 1..Len(parts) : FloatOk(parts[k]) THEN 0
    ELSE CHOOSE k \in 1..Len(parts) :
             /\ ~FloatOk(parts[k])
             /\ \A m \in 1..(k - 1) : FloatOk(parts[m])

TsOfParts(ts, parts, bad) ==
    IF Len(parts) > 3 THEN TsErr("Invalid timestamp: " \o ts)
    ELSE IF bad # 0 THEN TsErr(FloatError(parts[bad]))
    ELSE TsOk(FieldsValue([k \in 1..Len(parts) |-> FloatMilli(parts[k])]))

\* ts_to_seconds(ts): [ok |-> TRUE, ms |-> value] or, when it raises,
\* [ok |-> FALSE, err |-> str(e)]
ts_to_seconds(ts) ==
    TsOfParts(Strip(ts), Split(Strip(ts), ":"), FirstBad(Split(Strip(ts), ":")))

\* variant: no .lower()
QualityToCrfNoLower(quality) ==
    LET q == IF quality = NoneVal \/ quality = "" THEN "medium" ELSE quality
    IN  CASE q = "high" -> 20
          [] q = "medium" -> 23
          [] q = "low" -> 28
          [] OTHER -> 23

\* variant: the table has no "high" entry
QualityToCrfNoHigh(quality) ==
    IF Lower(IF quality = NoneVal \/ quality = "" THEN "medium" ELSE quality) = "low"
    THEN 28 ELSE 23

\* quality_to_crf(quality); None and "" fall to "medium" by "or"
quality_to_crf(quality) ==
    LET q == Lower(IF quality = NoneVal \/ quality = "" THEN "medium" ELSE quality)
    IN  CASE q = "high" -> 20
          [] q = "medium" -> 23
          [] q = "low" -> 28
          [] OTHER -> 23

(***************************************************************************)
(* Constants of the program and bounds of the model                        *)
(***************************************************************************)

OUTPUT_EXPIRY_DAYS == 7
UPLOAD_DIR == "/tmp/video_uploads"
OUTPUT_DIR == "/tmp/video_outputs"
\* head_with_retry(..., attempts: int = 6)
Attempts == 6
\* delay = 0.4, in tenths of a second
BaseDelay == 4
\* min(delay * 2, 3.0), in tenths of a second
DelayCeiling == 30
\* err[:2000]
ExcerptLimit == 2000
\* len(input.prompt_text) > 1000
MaxPromptLen == 1000

\* job ids (uuid-derived in the code) and the jobs the pipeline runs
AllJobs == {"job_1", "job_2"}
RunJobs == {"job_1"}
Users == {"user_1"}

\* prompts submitted to create_job
PromptE2E == "Keep: 00:00-00:05, 00:10-00:15. Order: 2,1. Quality: high."
KeepClause == "Keep: 0-10, 10-20"
OrderClause21 == "Order: 2,1"
OrderedPrompts ==
    { KeepClause \o ". " \o OrderClause21,
      OrderClause21 \o ". " \o KeepClause \o ".",
      KeepClause \o ". " \o OrderClause21 \o ". Output: MKV. Quality: low" }
\* prompts from which parse_prompt takes no segment
ZeroSegmentPrompts ==
    { "Order: 1. Output: webm",
      "Quality: high. Order: 2,1. Output: mkv",
      "Keep: 0.5-1.5",
      "" }
\* prompts with a segment whose end is not after its start
BadRangePrompts == { "Keep: 10-5", "Keep: 1:00-60", "Keep: 0-10, 20-15" }
PromptOrder5 == "Keep: 0-10. Order: 5"
PromptOrder13 == "Keep: 0-1, 2-3, 4-5. Order: 1,3"
Prompts ==
    OrderedPrompts \cup ZeroSegmentPrompts \cup BadRangePrompts \cup
    { PromptE2E,
      PromptOrder5,
      PromptOrder13,
      "Keep: 1:2:3:4-5, 0-x",
      Rep("x", MaxPromptLen + 1) }

\* diagnostic texts of the transcoder (stderr, decoded)
DiagLong == Rep("a", ExcerptLimit - 2) \o "bcde"
Diags == { "", "moov atom not found", Rep("a", ExcerptLimit), DiagLong }

\* sizes of local files written by a download or by the transcoder
FileSizes == {0, 5}

\* answers of the object store to head_object: success, or the error code of
\* a ClientError, or "network" for an error that is not a ClientError
HeadAnswers == {"ok", "404", "NoSuchKey", "NotFound", "403", "network"}

(***************************************************************************)
(* State                                                                   *)
(***************************************************************************)

VARIABLES
    videos,     \* db.videos: video_id -> record
    jobs,       \* db.jobs: job_id -> record
    metrics,    \* db.metrics: videos_processed of the current day
    fs,         \* local files: path -> size
    bucket,     \* keys written to the object store by upload_file
    run,        \* per job: the position and the locals of process_job
    hist,       \* per job: what the run did so far (history)
    killed,     \* the worker process was killed
    call,       \* a direct call of one of the pure functions: name, argument
    ret,        \* what that call returned: << >> before it returns
    billing     \* PAY_FIRST_MODE, db.payments, the presigned upload URLs
                \* issued, and which videos were reserved as paid-for and
                \* which had a payment confirmed (history)

vars ==
    << videos, jobs, metrics, fs, bucket, run, hist, killed, call, ret, billing >>

\* the state of the job pipeline, and of a direct function call
pipeline == << videos, jobs, metrics, fs, bucket, run, hist, killed >>
fnvars == << call, ret >>

NoCall == [fn |-> NoneVal, arg |-> NoneVal]

\* no payment, no upload URL; mode is the value of PAY_FIRST_MODE
NoBilling(mode) ==
    [mode |-> mode, payments |-> << >>, urls |-> {}, required |-> {},
     confirmed |-> {}]

NoExc == [cls |-> NoneVal, msg |-> "", step |-> NoneVal]

Exc(cls, msg, step) == [cls |-> cls, msg |-> msg, step |-> step]

InitRun ==
    [pc |-> "idle", input_path |-> NoneVal, output_path |-> NoneVal,
     output_key |-> NoneVal, input_key |-> NoneVal, ordered |-> << >>,
     out_fmt |-> NoneVal, crf |-> 0, filter |-> << >>,
     delay |-> 0, attempt |-> 0, code |-> NoneVal, exc |-> NoExc,
     result |-> "pending"]

InitHist ==
    [status |-> << >>, guard |-> << >>, downloads |-> 0, spawns |-> << >>,
     exits |-> << >>, uploads |-> << >>, heads |-> 0, unlinks |-> << >>,
     unlink_errors |-> 0, increments |-> 0]

PipelineInit ==
    /\ videos = [v \in {"video_1"} |->
                   [user_id |-> "user_1", object_key |-> "uploads/user_1/video_1.mp4",
                    extension |-> "mp4", size_bytes |-> 50000000,
                    payment_required |-> FALSE, payment_completed |-> FALSE]]
    /\ jobs = << >>
    /\ metrics = 0
    /\ fs = << >>
    /\ bucket = {}
    /\ run = [j \in AllJobs |-> InitRun]
    /\ hist = [j \in AllJobs |-> InitHist]
    /\ killed = FALSE

\* PAY_FIRST_MODE = os.getenv("PAY_FIRST_MODE", "1") == "1": set by default
Init == PipelineInit /\ call = NoCall /\ ret = << >> /\ billing = NoBilling(TRUE)

\* dict/collection helpers
Range(seq) == {seq[k] : k \in 1..Len(seq)}
Put(f, k, v) == [x \in DOMAIN f \cup {k} |-> IF x = k THEN v ELSE f[x]]
Drop(f, k) == [x \in DOMAIN f \ {k} |-> f[x]]

\* db.jobs.update_one({"job_id": j}, {"$set": fields}): no-op on a missing job
UpdateJob(js, j, fields) ==
    IF j \in DOMAIN js
    THEN [js EXCEPT ![j] = [f \in DOMAIN @ |->
                               IF f \in DOMAIN fields THEN fields[f] ELSE @[f]]]
    ELSE js

SetRun(j, fields) ==
    [run EXCEPT ![j] = [f \in DOMAIN @ |->
                           IF f \in DOMAIN fields THEN fields[f] ELSE @[f]]]

Log(j, field, entry) == [hist EXCEPT ![j][field] = Append(@, entry)]

(***************************************************************************)
(* create_job                                                              *)
(***************************************************************************)

\* POST /jobs: 404, 402 and 400 answers leave the state unchanged; otherwise
\* the job is inserted as queued and process_job is scheduled for it
create_job(j, user, video_id, prompt_text) ==
    /\ ~killed
    /\ j \notin DOMAIN jobs
    /\ video_id \in DOMAIN videos /\ videos[video_id].user_id = user
    /\ ~(videos[video_id].payment_required /\ ~videos[video_id].payment_completed)
    /\ ~(Len(prompt_text) > MaxPromptLen)
    /\ ~ParseRaises(prompt_text)
    /\ jobs' = Put(jobs, j,
                   [job_id |-> j, user_id |-> user, video_id |-> video_id,
                    prompt_text |-> prompt_text,
                    parsed_prompt |-> parse_prompt(prompt_text),
                    status |-> "queued", output_key |-> NoneVal,
                    output_expires_at |-> NoneVal, error_message |-> NoneVal,
                    completed_at |-> NoneVal])
    /\ run' = SetRun(j, [pc |-> "start"])
    /\ hist' = Log(j, "status", "queued")
    /\ UNCHANGED << videos, metrics, fs, bucket, killed >>

(***************************************************************************)
(* head_with_retry                                                         *)
(***************************************************************************)

\* variant: a permission error is taken for not-found
IsNotFoundOrForbidden(code) == code \in {"404", "NoSuchKey", "NotFound", "403"}

\* code in ("404", "NoSuchKey", "NotFound")
IsNotFound(code) == code \in {"404", "NoSuchKey", "NotFound"}

\* variant: the delay doubles without a ceiling
NextDelayUncapped(delay) == delay * 2

\* delay = min(delay * 2, 3.0)
NextDelay(delay) == Min(delay * 2, DelayCeiling)

\* str(e) of the error head_object raised
HeadError(ans) ==
    IF ans = "network"
    THEN Exc("EndpointConnectionError", "Could not connect to the endpoint URL", "guard")
    ELSE Exc("ClientError",
             "An error occurred (" \o ans \o ") when calling the HeadObject operation",
             "guard")

\* variant: no return after a successful probe
GuardOutcomeNoReturn(ans, attempt) ==
    IF ans = "ok" \/ IsNotFound(ans)
    THEN IF attempt + 1 < Attempts THEN "retry" ELSE "exhausted"
    ELSE "raise"

\* variant: range(attempts + 1)
GuardOutcomeOneMore(ans, attempt) ==
    IF ans = "ok" THEN "return"
    ELSE IF IsNotFound(ans)
    THEN IF attempt + 1 < Attempts + 1 THEN "retry" ELSE "exhausted"
    ELSE "raise"

\* what one pass of the loop body does with the store's answer, attempt
\* being the number of passes already made: return, sleep and go round
\* again, sleep and fall out of the loop, or re-raise
GuardOutcome(ans, attempt) ==
    IF ans = "ok" THEN "return"
    ELSE IF IsNotFound(ans)
    THEN IF attempt + 1 < Attempts THEN "retry" ELSE "exhausted"
    ELSE "raise"

\* the answer as the guard's history records it
AnswerClass(ans) == IF ans \in {"404", "NoSuchKey", "NotFound"} THEN "not_found" ELSE ans

ProbeEvent(ans) == [ev |-> "probe", ans |-> AnswerClass(ans), delay |-> 0]
SleepEvent(delay) == [ev |-> "sleep", ans |-> "", delay |-> delay]

\* one pass of the loop body: a probe and, on a not-found answer, the sleep
\* and the doubling of the delay; falling out of the loop raises
head_with_retry(j, ans) ==
    /\ ~killed
    /\ run[j].pc = "guard"
    /\ LET o == GuardOutcome(ans, run[j].attempt)
       IN  /\ hist' = [hist EXCEPT ![j].guard =
                          IF o \in {"retry", "exhausted"}
                          THEN @ \o << ProbeEvent(ans), SleepEvent(run[j].delay) >>
                          ELSE Append(@, ProbeEvent(ans))]
           /\ run' = CASE o = "return" ->
                            SetRun(j, [pc |-> "download", code |-> ans])
                       [] o = "retry" ->
                            SetRun(j, [delay |-> NextDelay(run[j].delay),
                                       attempt |-> run[j].attempt + 1, code |-> ans])
                       [] o = "exhausted" ->
                            SetRun(j, [delay |-> NextDelay(run[j].delay),
                                       attempt |-> run[j].attempt + 1, code |-> ans,
                                       pc |-> "except",
                                       exc |-> Exc("RuntimeError",
                                                   "Object not found after retries: "
                                                       \o run[j].input_key,
                                                   "guard")])
                       [] OTHER ->
                            SetRun(j, [pc |-> "except", code |-> ans,
                                       exc |-> HeadError(ans)])
    /\ UNCHANGED << videos, jobs, metrics, fs, bucket, killed >>

(***************************************************************************)
(* process_job                                                             *)
(***************************************************************************)

\* job = await db.jobs.find_one(...); a missing job is logged and the run
\* returns (through the finally block, with no paths set)
FindJob(j) ==
    /\ ~killed
    /\ run[j].pc = "start"
    /\ run' = IF j \in DOMAIN jobs
              THEN SetRun(j, [pc |-> "mark"])
              ELSE SetRun(j, [pc |-> "finished", result |-> "returned"])
    /\ UNCHANGED << videos, jobs, metrics, fs, bucket, hist, killed >>

\* variant: the run goes on to the video lookup without the write of line 830
MarkProcessingSkipped(j) ==
    /\ ~killed
    /\ run[j].pc = "mark"
    /\ run' = SetRun(j, [pc |-> "lookup"])
    /\ UNCHANGED << videos, jobs, metrics, fs, bucket, hist, killed >>

\* await db.jobs.update_one(..., {"$set": {"status": "processing"}})
MarkProcessing(j) ==
    /\ ~killed
    /\ run[j].pc = "mark"
    /\ jobs' = UpdateJob(jobs, j, [status |-> "processing"])
    /\ hist' = Log(j, "status", "processing")
    /\ run' = SetRun(j, [pc |-> "lookup"])
    /\ UNCHANGED << videos, metrics, fs, bucket, killed >>

\* variant: the check of line 846 is left out
NoSegmentsUnchecked(segments) == FALSE

\* "if not segments"
NoSegments(segments) == segments = << >>

\* parsed.get("order") or [s.get("index") for s in segments]
OrderOf(parsed) ==
    IF parsed.order # << >> THEN parsed.order ELSE SegmentIndices(parsed.segments)

\* seg_map = {s["index"]: s for s in segments}: a later segment replaces an
\* earlier one of the same index
SegMap(segments) ==
    [i \in {segments[k].index : k \in 1..Len(segments)} |->
        segments[CHOOSE k \in 1..Len(segments) :
                    /\ segments[k].index = i
                    /\ \A m \in 1..Len(segments) : segments[m].index = i => m <= k]]

RECURSIVE OrderedFrom(_, _, _)
\* for idx in order: if idx in seg_map: ordered.append(seg_map[idx])
OrderedFrom(order, seg_map, k) ==
    IF k > Len(order) THEN << >>
    ELSE (IF order[k] \in DOMAIN seg_map THEN << seg_map[order[k]] >> ELSE << >>)
         \o OrderedFrom(order, seg_map, k + 1)

Ordered(parsed) == OrderedFrom(OrderOf(parsed), SegMap(parsed.segments), 1)

\* (x or "mp4").lower()
OrMp4(x) == Lower(IF x = NoneVal \/ x = "" THEN "mp4" ELSE x)

\* variant: the input file is not named after the job
InputPathShared(j, ext) == UPLOAD_DIR \o "/input." \o ext

InputPath(j, ext) == UPLOAD_DIR \o "/" \o j \o "_input." \o ext
OutputPath(j, fmt) == OUTPUT_DIR \o "/" \o j \o "_output." \o fmt
OutputKey(user, j, fmt) == "outputs/" \o user \o "/" \o j \o "." \o fmt

\* lines 833-866: the video lookup, the plan taken from the stored
\* parsed_prompt, its checks, the local paths and the entry into the guard
PlanRun(j) ==
    /\ ~killed
    /\ run[j].pc = "lookup"
    /\ LET job == jobs[j]
           parsed == job.parsed_prompt
           ordered == Ordered(parsed)
           out_fmt == OrMp4(parsed.output_format)
       IN  IF job.video_id \notin DOMAIN videos
           THEN run' = SetRun(j, [pc |-> "except",
                                  exc |-> Exc("RuntimeError", "Video not found", "lookup")])
           ELSE IF NoSegments(parsed.segments)
           THEN run' = SetRun(j, [pc |-> "except",
                                  input_key |-> videos[job.video_id].object_key,
                                  out_fmt |-> out_fmt,
                                  crf |-> quality_to_crf(parsed.quality),
                                  exc |-> Exc("RuntimeError",
                                      "No segments found in prompt. Use: Keep: 00:00-00:10",
                                      "validate")])
           ELSE IF ordered = << >>
           THEN run' = SetRun(j, [pc |-> "except",
                                  input_key |-> videos[job.video_id].object_key,
                                  out_fmt |-> out_fmt,
                                  crf |-> quality_to_crf(parsed.quality),
                                  exc |-> Exc("RuntimeError",
                                      "Segment order invalid / no segments matched",
                                      "validate")])
           ELSE run' = SetRun(j, [pc |-> "guard",
                                  input_key |-> videos[job.video_id].object_key,
                                  out_fmt |-> out_fmt,
                                  crf |-> quality_to_crf(parsed.quality),
                                  ordered |-> ordered,
                                  input_path |->
                                      InputPath(j, OrMp4(videos[job.video_id].extension)),
                                  output_path |-> OutputPath(j, out_fmt),
                                  output_key |-> OutputKey(job.user_id, j, out_fmt),
                                  delay |-> BaseDelay,
                                  attempt |-> 0])
    /\ UNCHANGED << videos, jobs, metrics, fs, bucket, hist, killed >>

\* input_path.exists() and st_size
Exists(files, path) == path \in DOMAIN files
\* variant: only exists() is tested, not st_size
EmptyOnlyMissing(files, path) == ~Exists(files, path)
Empty(files, path) == ~Exists(files, path) \/ files[path] = 0

\* s3.download_file(...) and the check of the local input file: the call
\* raises, or returns with no file there, or writes a file of the given size
Download(j, outcome, size) ==
    /\ ~killed
    /\ run[j].pc = "download"
    /\ hist' = [hist EXCEPT ![j].downloads = @ + 1]
    /\ fs' = IF outcome = "written" THEN Put(fs, run[j].input_path, size) ELSE fs
    /\ IF outcome = "raise"
       THEN run' = SetRun(j, [pc |-> "except",
                              exc |-> Exc("ClientError",
                                  "An error occurred (404) when calling the HeadObject operation",
                                  "download")])
       ELSE IF Empty(fs', run[j].input_path)
       THEN run' = SetRun(j, [pc |-> "except",
                              exc |-> Exc("RuntimeError",
                                  "Input download failed / empty file", "download")])
       ELSE run' = SetRun(j, [pc |-> "compile"])
    /\ UNCHANGED << videos, jobs, metrics, bucket, killed >>

\* variant: the labels count from 1
TrimPairOneBased(i, s, e) ==
    << [input |-> "0:v", op |-> "trim", start |-> s, end |-> e,
        reset |-> "setpts=PTS-STARTPTS", label |-> "v" \o ToString(i + 1)],
       [input |-> "0:a", op |-> "atrim", start |-> s, end |-> e,
        reset |-> "asetpts=PTS-STARTPTS", label |-> "a" \o ToString(i + 1)] >>

\* the two filter_parts entries and the concat_inputs entry of position i
TrimPair(i, s, e) ==
    << [input |-> "0:v", op |-> "trim", start |-> s, end |-> e,
        reset |-> "setpts=PTS-STARTPTS", label |-> "v" \o ToString(i)],
       [input |-> "0:a", op |-> "atrim", start |-> s, end |-> e,
        reset |-> "asetpts=PTS-STARTPTS", label |-> "a" \o ToString(i)] >>

\* the timestamp texts of the prompts create_job accepts, and
\* ts_to_seconds tabulated over them: process_job calls it on these texts
\* only
Timestamps ==
    UNION { UNION { {seg.start, seg.end} : seg \in Range(parse_prompt(p).segments) } :
                p \in {q \in Prompts : Len(q) <= MaxPromptLen} }

Resolved == { << ts, ts_to_seconds(ts) >> : ts \in Timestamps }

\* ts_to_seconds(ts), read from the table
Resolve(ts) == (CHOOSE p \in Resolved : p[1] = ts)[2]

CompileOk(parts) == [ok |-> TRUE, parts |-> parts, err |-> NoExc]
CompileErr(cls, msg) == [ok |-> FALSE, parts |-> << >>, err |-> Exc(cls, msg, "validate")]

\* variant: the check of line 887 is left out
CompileSegmentAnyRange(i, seg, s, e, rest) ==
    IF ~s.ok THEN CompileErr("ValueError", s.err)
    ELSE IF ~e.ok THEN CompileErr("ValueError", e.err)
    ELSE IF ~rest.ok THEN rest
    ELSE CompileOk(TrimPair(i, s.ms, e.ms) \o rest.parts)

\* the body of the loop at 0-based position i, given the two resolved
\* timestamps and the outcome of the rest of the loop
CompileSegment(i, seg, s, e, rest) ==
    IF ~s.ok THEN CompileErr("ValueError", s.err)
    ELSE IF ~e.ok THEN CompileErr("ValueError", e.err)
    ELSE IF e.ms <= s.ms
    THEN CompileErr("RuntimeError", "Invalid segment: " \o seg.start \o "-" \o seg.end)
    ELSE IF ~rest.ok THEN rest
    ELSE CompileOk(TrimPair(i, s.ms, e.ms) \o rest.parts)

RECURSIVE CompileFrom(_, _)
\* for i, seg in enumerate(ordered), from the 1-based position k: the parts
\* built, or the first error raised
CompileFrom(ordered, k) ==
    IF k > Len(ordered) THEN CompileOk(<< >>)
    ELSE CompileSegment(k - 1, ordered[k], Resolve(ordered[k].start),
                        Resolve(ordered[k].end), CompileFrom(ordered, k + 1))

\* filter_complex: the parts, then the concat over [v0][a0]...[v(n-1)][a(n-1)]
FilterComplex(parts, n) ==
    [parts |-> parts,
     concat |-> [inputs |-> [k \in 1..Len(parts) |-> parts[k].label],
                 n |-> n, v |-> 1, a |-> 1, outputs |-> << "outv", "outa" >>]]

\* the ffmpeg command line
Command(j, fc) ==
    [input |-> run[j].input_path, filter |-> fc, vcodec |-> "libx264",
     preset |-> "medium", crf |-> run[j].crf, acodec |-> "aac",
     abitrate |-> "128k", output |-> run[j].output_path]

\* lines 878-918: the filter graph, the ffmpeg command and the spawn of the
\* child process (which raises when the binary cannot be started)
Compile(j, spawned) ==
    /\ ~killed
    /\ run[j].pc = "compile"
    /\ LET c == CompileFrom(run[j].ordered, 1)
           fc == FilterComplex(c.parts, Len(run[j].ordered))
       IN  IF ~c.ok
           THEN /\ run' = SetRun(j, [pc |-> "except", exc |-> c.err])
                /\ hist' = hist
           ELSE IF ~spawned
           THEN /\ run' = SetRun(j, [pc |-> "except", filter |-> fc,
                                     exc |-> Exc("FileNotFoundError",
                                         "[Errno 2] No such file or directory: 'ffmpeg'",
                                         "transcode")])
                /\ hist' = hist
           ELSE /\ run' = SetRun(j, [pc |-> "transcode", filter |-> fc])
                /\ hist' = Log(j, "spawns", Command(j, fc))
    /\ UNCHANGED << videos, jobs, metrics, fs, bucket, killed >>

\* variant: the diagnostic text is not cut
FfmpegErrorWhole(err) == "ffmpeg failed: " \o err

\* "ffmpeg failed: " + err[:2000]
FfmpegError(err) == "ffmpeg failed: " \o Prefix(err, ExcerptLimit)

\* variant: the exit status is not looked at (no check at line 921)
TranscodeIgnoresExit(j, returncode, stderr, wrote, size) ==
    /\ ~killed
    /\ run[j].pc = "transcode"
    /\ fs' = IF wrote THEN Put(fs, run[j].output_path, size) ELSE fs
    /\ IF Empty(fs', run[j].output_path)
       THEN run' = SetRun(j, [pc |-> "except",
                              exc |-> Exc("RuntimeError",
                                          "Output not created / empty", "transcode")])
       ELSE run' = SetRun(j, [pc |-> "upload"])
    /\ hist' = Log(j, "exits", [returncode |-> returncode, stderr |-> stderr])
    /\ UNCHANGED << videos, jobs, metrics, bucket, killed >>

\* proc.communicate() returned: the exit status, the diagnostic text and the
\* output file the transcoder left (none, or a file of the given size);
\* then the checks of lines 921-926
Transcode(j, returncode, stderr, wrote, size) ==
    /\ ~killed
    /\ run[j].pc = "transcode"
    /\ fs' = IF wrote THEN Put(fs, run[j].output_path, size) ELSE fs
    /\ IF returncode # 0
       THEN run' = SetRun(j, [pc |-> "except",
                              exc |-> Exc("RuntimeError", FfmpegError(stderr),
                                          "transcode")])
       ELSE IF Empty(fs', run[j].output_path)
       THEN run' = SetRun(j, [pc |-> "except",
                              exc |-> Exc("RuntimeError",
                                          "Output not created / empty", "transcode")])
       ELSE run' = SetRun(j, [pc |-> "upload"])
    /\ hist' = Log(j, "exits", [returncode |-> returncode, stderr |-> stderr])
    /\ UNCHANGED << videos, jobs, metrics, bucket, killed >>

\* variant: the done write follows the upload, without the check of line 935
UploadNoVerify(j, ok) ==
    /\ ~killed
    /\ run[j].pc = "upload"
    /\ IF ok
       THEN /\ bucket' = bucket \cup {run[j].output_key}
            /\ hist' = Log(j, "uploads", run[j].output_key)
            /\ run' = SetRun(j, [pc |-> "persist"])
       ELSE /\ UNCHANGED << bucket, hist >>
            /\ run' = SetRun(j, [pc |-> "except",
                                 exc |-> Exc("S3UploadFailedError",
                                     "Failed to upload " \o run[j].output_path,
                                     "upload")])
    /\ UNCHANGED << videos, jobs, metrics, fs, killed >>

\* s3.upload_file(str(output_path), SPACES_BUCKET, output_key)
Upload(j, ok) ==
    /\ ~killed
    /\ run[j].pc = "upload"
    /\ IF ok
       THEN /\ bucket' = bucket \cup {run[j].output_key}
            /\ hist' = Log(j, "uploads", run[j].output_key)
            /\ run' = SetRun(j, [pc |-> "verify"])
       ELSE /\ UNCHANGED << bucket, hist >>
            /\ run' = SetRun(j, [pc |-> "except",
                                 exc |-> Exc("S3UploadFailedError",
                                     "Failed to upload " \o run[j].output_path,
                                     "upload")])
    /\ UNCHANGED << videos, jobs, metrics, fs, killed >>

\* s3.head_object(Bucket=SPACES_BUCKET, Key=output_key), once
VerifyOutput(j, ans) ==
    /\ ~killed
    /\ run[j].pc = "verify"
    /\ hist' = [hist EXCEPT ![j].heads = @ + 1]
    /\ run' = IF ans = "ok"
              THEN SetRun(j, [pc |-> "persist"])
              ELSE SetRun(j, [pc |-> "except",
                              exc |-> [HeadError(ans) EXCEPT !.step = "verify"]])
    /\ UNCHANGED << videos, jobs, metrics, fs, bucket, killed >>

ExpiryStamp == "now+" \o ToString(OUTPUT_EXPIRY_DAYS) \o "d"

\* lines 938-946: the done write
PersistDone(j) ==
    /\ ~killed
    /\ run[j].pc = "persist"
    /\ jobs' = UpdateJob(jobs, j, [status |-> "done",
                                   output_key |-> run[j].output_key,
                                   output_expires_at |-> ExpiryStamp,
                                   completed_at |-> "now"])
    /\ hist' = Log(j, "status", "done")
    /\ run' = SetRun(j, [pc |-> "metrics"])
    /\ UNCHANGED << videos, metrics, fs, bucket, killed >>

\* await db.metrics.update_one({"date": today}, {"$inc": ...}, upsert=True),
\* which may raise as any call to the store may
IncrementMetrics(j, ok) ==
    /\ ~killed
    /\ run[j].pc = "metrics"
    /\ IF ok
       THEN /\ metrics' = metrics + 1
            /\ hist' = [hist EXCEPT ![j].increments = @ + 1]
            /\ run' = SetRun(j, [pc |-> "cleanup"])
       ELSE /\ UNCHANGED << metrics, hist >>
            /\ run' = SetRun(j, [pc |-> "except",
                                 exc |-> Exc("PyMongoError", "metrics update failed",
                                             "metrics")])
    /\ UNCHANGED << videos, jobs, fs, bucket, killed >>

\* variant: "except RuntimeError as e"
CatchesRuntimeError(cls) == cls = "RuntimeError"

\* variant: no except clause
CatchesNothing(cls) == FALSE

\* except Exception as e: every class raised in the try block derives from
\* Exception
Catches(cls) == TRUE

\* lines 954-963: the failed write; an exception the clause does not catch
\* goes on to the caller after the finally block
HandleException(j) ==
    /\ ~killed
    /\ run[j].pc = "except"
    /\ IF Catches(run[j].exc.cls)
       THEN /\ jobs' = UpdateJob(jobs, j, [status |-> "failed",
                                           error_message |-> run[j].exc.msg,
                                           completed_at |-> "now"])
            /\ hist' = Log(j, "status", "failed")
            /\ run' = SetRun(j, [pc |-> "cleanup"])
       ELSE /\ UNCHANGED << jobs, hist >>
            /\ run' = SetRun(j, [pc |-> "cleanup", result |-> "raising"])
    /\ UNCHANGED << videos, metrics, fs, bucket, killed >>

\* the body of the try in the finally block: each unlink is attempted when
\* the path is set and the file exists; an unlink that raises leaves the
\* file and ends the try
CleanupFiles(files, input_path, output_path, inRaises, outRaises) ==
    LET tryIn == input_path # NoneVal /\ Exists(files, input_path)
        afterIn == IF tryIn /\ ~inRaises THEN Drop(files, input_path) ELSE files
        reachOut == ~(tryIn /\ inRaises)
        tryOut == reachOut /\ output_path # NoneVal /\ Exists(afterIn, output_path)
        afterOut == IF tryOut /\ ~outRaises THEN Drop(afterIn, output_path) ELSE afterIn
    IN  [files |-> afterOut,
         unlinks |-> (IF tryIn THEN << "input" >> ELSE << >>)
                     \o (IF tryOut THEN << "output" >> ELSE << >>),
         errors |-> IF (tryIn /\ inRaises) \/ (tryOut /\ outRaises) THEN 1 ELSE 0]

\* lines 964-972: the finally block; the cleanup error is logged, and the
\* run then returns, or re-raises what the except clause did not catch
Cleanup(j, inRaises, outRaises) ==
    /\ ~killed
    /\ run[j].pc = "cleanup"
    /\ LET c == CleanupFiles(fs, run[j].input_path, run[j].output_path,
                             inRaises, outRaises)
       IN  /\ fs' = c.files
           /\ hist' = [hist EXCEPT ![j].unlinks = c.unlinks,
                                    ![j].unlink_errors = c.errors]
    /\ run' = SetRun(j, [pc |-> "finished",
                         result |-> IF run[j].result = "raising"
                                    THEN "raised" ELSE "returned"])
    /\ UNCHANGED << videos, jobs, metrics, bucket, killed >>

Running(j) == run[j].pc \notin {"idle", "finished"}

\* the worker process is killed while a run is under way: no step of any
\* run is taken afterwards
Kill ==
    /\ ~killed
    /\ \E j \in AllJobs : Running(j)
    /\ killed' = TRUE
    /\ UNCHANGED << videos, jobs, metrics, fs, bucket, run, hist >>

\* the video record is removed from the store by its owner (retention is
\* outside the pipeline), which the lookup of line 833 then sees
VideoRemoved(v) ==
    /\ ~killed
    /\ v \in DOMAIN videos
    /\ videos' = Drop(videos, v)
    /\ UNCHANGED << jobs, metrics, fs, bucket, run, hist, killed >>

(***************************************************************************)
(* Direct calls of parse_prompt, ts_to_seconds and quality_to_crf          *)
(***************************************************************************)

\* clauses of a prompt, well-formed and not
Clauses ==
    { "Keep: 0-1", "Keep: 2-3, 4-5", "keep: a-b-c, 1-2, 7", "KEEP: 00:10 - 00:20",
      "Order: 2,1", "Order: x, 1", "order:", "Order: 1,,2",
      "Output: WEBM", "Quality:", "foo: bar", "" }

\* one keep: clause with malformed pairs, or with fractional seconds
PromptFoo == "Keep: foo, 0-10"
PromptFraction == "Keep: 0.5-1.5"
KeepPrompts == { PromptFoo, PromptFraction, "Keep: 0-10, foo, 20-30, 40" }

\* prompts of one clause and of two clauses
ParseInputs ==
    Clauses \cup { a \o ". " \o b : a \in Clauses, b \in Clauses } \cup KeepPrompts

\* fields of a timestamp text
Fields == { "0", "1", "01", "30", "90" }

TsInputs ==
    Fields
    \cup { a \o ":" \o b : a \in Fields, b \in Fields }
    \cup { a \o ":" \o b \o ":" \o c : a \in Fields, b \in Fields, c \in Fields }
    \cup { "1:2:3:4", "0:0:0:0:0", "", "x", "1:x", " 90 ", "1:30.5", ":30" }

QualityInputs ==
    { "high", "medium", "low", "HIGH", "Low", "MeDium", "", NoneVal,
      "ultra", "best", " high", "highest" }

Calls ==
    [fn : {"parse_prompt"}, arg : ParseInputs]
    \cup [fn : {"ts_to_seconds"}, arg : TsInputs]
    \cup [fn : {"quality_to_crf"}, arg : QualityInputs]

FnInit ==
    PipelineInit /\ call \in Calls /\ ret = << >> /\ billing = NoBilling(TRUE)

Returned == ret # << >>

\* parse_prompt(call.arg) returns its plan, or raises
CallParsePrompt ==
    /\ call.fn = "parse_prompt" /\ ~Returned
    /\ ret' = << [raised |-> ParseRaises(call.arg), value |-> parse_prompt(call.arg)] >>
    /\ UNCHANGED << call, pipeline, billing >>

\* ts_to_seconds(call.arg) returns seconds (here milliseconds), or raises
CallTsToSeconds ==
    /\ call.fn = "ts_to_seconds" /\ ~Returned
    /\ ret' = << ts_to_seconds(call.arg) >>
    /\ UNCHANGED << call, pipeline, billing >>

\* quality_to_crf(call.arg) returns the CRF
CallQualityToCrf ==
    /\ call.fn = "quality_to_crf" /\ ~Returned
    /\ ret' = << quality_to_crf(call.arg) >>
    /\ UNCHANGED << call, pipeline, billing >>

FnNext == CallParsePrompt \/ CallTsToSeconds \/ CallQualityToCrf

FnSpec == FnInit /\ [][FnNext]_vars

(***************************************************************************)
(* Specification                                                           *)
(***************************************************************************)

Submit ==
    /\ \E j \in RunJobs, u \in Users, v \in DOMAIN videos, p \in Prompts :
          create_job(j, u, v, p)
    /\ UNCHANGED << fnvars, billing >>
Find == (\E j \in RunJobs : FindJob(j)) /\ UNCHANGED << fnvars, billing >>
Mark == (\E j \in RunJobs : MarkProcessing(j)) /\ UNCHANGED << fnvars, billing >>
Plan == (\E j \in RunJobs : PlanRun(j)) /\ UNCHANGED << fnvars, billing >>
Guard ==
    /\ \E j \in RunJobs, ans \in HeadAnswers : head_with_retry(j, ans)
    /\ UNCHANGED << fnvars, billing >>
Fetch ==
    /\ \E j \in RunJobs, o \in {"raise", "missing", "written"}, n \in FileSizes :
          Download(j, o, n)
    /\ UNCHANGED << fnvars, billing >>
Build == (\E j \in RunJobs, spawned \in BOOLEAN : Compile(j, spawned)) /\ UNCHANGED << fnvars, billing >>
Encode ==
    /\ \E j \in RunJobs, rc \in {0, 1}, d \in Diags, w \in BOOLEAN, n \in FileSizes :
          Transcode(j, rc, d, w, n)
    /\ UNCHANGED << fnvars, billing >>
Store == (\E j \in RunJobs, ok \in BOOLEAN : Upload(j, ok)) /\ UNCHANGED << fnvars, billing >>
Verify ==
    /\ \E j \in RunJobs, ans \in HeadAnswers : VerifyOutput(j, ans)
    /\ UNCHANGED << fnvars, billing >>
Done == (\E j \in RunJobs : PersistDone(j)) /\ UNCHANGED << fnvars, billing >>
Count == (\E j \in RunJobs, ok \in BOOLEAN : IncrementMetrics(j, ok)) /\ UNCHANGED << fnvars, billing >>
Fail == (\E j \in RunJobs : HandleException(j)) /\ UNCHANGED << fnvars, billing >>
Clean ==
    /\ \E j \in RunJobs, a \in BOOLEAN, b \in BOOLEAN : Cleanup(j, a, b)
    /\ UNCHANGED << fnvars, billing >>
Expire == (\E v \in DOMAIN videos : VideoRemoved(v)) /\ UNCHANGED << fnvars, billing >>
Stop == Kill /\ UNCHANGED << fnvars, billing >>

Next ==
    \/ Submit \/ Find \/ Mark \/ Plan \/ Guard \/ Fetch \/ Build \/ Encode
    \/ Store \/ Verify \/ Done \/ Count \/ Fail \/ Clean \/ Stop \/ Expire

Spec == Init /\ [][Next]_vars

\* the steps of process_job; the event loop resumes a run whose awaited
\* call has returned
RunStep ==
    \/ Find \/ Mark \/ Plan \/ Guard \/ Fetch \/ Build \/ Encode
    \/ Store \/ Verify \/ Done \/ Count \/ Fail \/ Clean

FairSpec == Init /\ [][Next]_vars /\ WF_vars(RunStep)

(***************************************************************************)
(* Concurrent runs: every job of AllJobs is run, the steps of the runs     *)
(* interleaving at their awaits, under a smaller environment               *)
(***************************************************************************)

ConcPrompts == { "Keep: 0-10", "Keep: 0-10. Output: WEBM" }
ConcAnswers == { "ok", "404", "403" }

ConcSubmit ==
    /\ \E j \in AllJobs, u \in Users, v \in DOMAIN videos, p \in ConcPrompts :
          create_job(j, u, v, p)
    /\ UNCHANGED << fnvars, billing >>
ConcFind == (\E j \in AllJobs : FindJob(j)) /\ UNCHANGED << fnvars, billing >>
ConcMark == (\E j \in AllJobs : MarkProcessing(j)) /\ UNCHANGED << fnvars, billing >>
ConcPlan == (\E j \in AllJobs : PlanRun(j)) /\ UNCHANGED << fnvars, billing >>
ConcGuard ==
    /\ \E j \in AllJobs, ans \in ConcAnswers : head_with_retry(j, ans)
    /\ UNCHANGED << fnvars, billing >>
ConcFetch ==
    /\ \E j \in AllJobs, o \in {"raise", "written"} : Download(j, o, 5)
    /\ UNCHANGED << fnvars, billing >>
ConcBuild == (\E j \in AllJobs : Compile(j, TRUE)) /\ UNCHANGED << fnvars, billing >>
ConcEncode ==
    /\ \E j \in AllJobs, rc \in {0, 1} : Transcode(j, rc, "", TRUE, 5)
    /\ UNCHANGED << fnvars, billing >>
ConcStore == (\E j \in AllJobs, ok \in BOOLEAN : Upload(j, ok)) /\ UNCHANGED << fnvars, billing >>
ConcVerify == (\E j \in AllJobs : VerifyOutput(j, "ok")) /\ UNCHANGED << fnvars, billing >>
ConcDone == (\E j \in AllJobs : PersistDone(j)) /\ UNCHANGED << fnvars, billing >>
ConcCount == (\E j \in AllJobs : IncrementMetrics(j, TRUE)) /\ UNCHANGED << fnvars, billing >>
ConcFail == (\E j \in AllJobs : HandleException(j)) /\ UNCHANGED << fnvars, billing >>
ConcClean ==
    /\ \E j \in AllJobs, a \in BOOLEAN : Cleanup(j, a, FALSE)
    /\ UNCHANGED << fnvars, billing >>

ConcNext ==
    \/ ConcSubmit \/ ConcFind \/ ConcMark \/ ConcPlan \/ ConcGuard \/ ConcFetch
    \/ ConcBuild \/ ConcEncode \/ ConcStore \/ ConcVerify \/ ConcDone
    \/ ConcCount \/ ConcFail \/ ConcClean

ConcSpec == Init /\ [][ConcNext]_vars

(***************************************************************************)
(* Upload and billing endpoints: reserve_upload, init_upload,              *)
(* complete_upload, create_checkout, billing_webhook, verify_payment.      *)
(* An answer with an HTTP error, or one that writes nothing, leaves the    *)
(* state as it was; sizes are in bytes.                                    *)
(***************************************************************************)

PAYMENT_THRESHOLD == 200 * 1024 * 1024

SUPPORTED_EXTENSIONS == {"mp4", "mkv", "avi", "mov", "mpeg", "ogv", "webm"}

\* size_bytes > MAX_FILE_SIZE, with MAX_FILE_SIZE = 2 * 1024 * 1024 * 1024:
\* both sides are halved (rounding the size up), the limit itself being one
\* past the largest integer TLC holds
TooLarge(size_bytes) == (size_bytes + 1) \div 2 > 1024 * 1024 * 1024

RECURSIVE LStripDots(_)
\* str.lstrip(".")
LStripDots(s) ==
    IF Len(s) > 0 /\ Char(s, 1) = "." THEN LStripDots(From(s, 1)) ELSE s

\* input.ext.lower().lstrip(".")
CleanExt(ext) == LStripDots(Lower(ext))

AlnumChars == "abcdefghijklmnopqrstuvwxyzABCDEFGHIJKLMNOPQRSTUVWXYZ0123456789"

\* ch.isalnum() or ch in ("-", "_", ".")
KeptInName(ch) ==
    \/ \E i \in 1..Len(AlnumChars) : Char(AlnumChars, i) = ch
    \/ ch \in {"-", "_", "."}

RECURSIVE SafeNameFrom(_, _)
SafeNameFrom(filename, i) ==
    IF i > Len(filename) THEN ""
    ELSE (IF KeptInName(Char(filename, i)) THEN Char(filename, i) ELSE "_")
         \o SafeNameFrom(filename, i + 1)

\* "".join(ch if ch.isalnum() or ch in ("-", "_", ".") else "_" for ch in name)
SafeName(filename) == SafeNameFrom(filename, 1)

\* f"uploads/{user_id}/{id}_{safe_name}", id a video id or a fresh uuid
UploadKey(user, id, safe_name) == "uploads/" \o user \o "/" \o id \o "_" \o safe_name

\* calculate_quote: the tier price of a one-time payment (rupees), else the
\* subscription prices
calculate_quote(size_bytes, mode) ==
    IF mode = "one_time"
    THEN [amount |-> IF size_bytes <= 500 * 1024 * 1024 THEN 49
                     ELSE IF size_bytes <= 1000 * 1024 * 1024 THEN 99
                     ELSE 149,
          currency |-> "INR", mode |-> "one_time"]
    ELSE [monthly |-> 299, annual |-> 2499]

\* db.videos.find_one({"video_id": video_id, "user_id": user})
FindVideo(video_id, user) ==
    video_id \in DOMAIN videos /\ videos[video_id].user_id = user

\* db.videos.update_one({"video_id": video_id}, {"$set":
\* {"payment_completed": True}}): no-op on a missing video
MarkPaid(vs, video_id) ==
    IF video_id \in DOMAIN vs
    THEN [vs EXCEPT ![video_id].payment_completed = TRUE]
    ELSE vs

\* POST /uploads/reserve: the video is recorded as reserved, under a fresh
\* video id; it needs a payment when the declared size is above the threshold
reserve_upload(user, video_id, filename, size_bytes, ext) ==
    /\ CleanExt(ext) \in SUPPORTED_EXTENSIONS
    /\ ~TooLarge(size_bytes)
    /\ video_id \notin DOMAIN videos
    /\ LET requires_payment == size_bytes > PAYMENT_THRESHOLD
           safe_name == SafeName(filename)
       IN  /\ videos' = Put(videos, video_id,
                  [user_id |-> user, filename |-> safe_name,
                   size_bytes |-> size_bytes, extension |-> CleanExt(ext),
                   object_key |-> UploadKey(user, video_id, safe_name),
                   upload_status |-> "reserved",
                   payment_required |-> requires_payment,
                   payment_completed |-> ~requires_payment])
           /\ billing' = [billing EXCEPT !.required =
                             IF requires_payment THEN @ \cup {video_id} ELSE @]
    /\ UNCHANGED << jobs, metrics, fs, bucket, run, hist, killed, fnvars >>

\* POST /uploads/init: a presigned PUT URL is issued: in pay-first mode for the
\* key of a reserved video that owes no payment, else for a fresh key
init_upload(user, video_id, filename, size_bytes, ext, uuid) ==
    /\ IF billing.mode
       THEN /\ video_id # NoneVal
            /\ FindVideo(video_id, user)
            /\ ~(videos[video_id].payment_required
                 /\ ~videos[video_id].payment_completed)
            /\ billing' = [billing EXCEPT !.urls =
                              @ \cup {videos[video_id].object_key}]
       ELSE /\ CleanExt(ext) \in SUPPORTED_EXTENSIONS
            /\ ~TooLarge(size_bytes)
            /\ billing' = [billing EXCEPT !.urls =
                              @ \cup {UploadKey(user, uuid, SafeName(filename))}]
    /\ UNCHANGED << videos, jobs, metrics, fs, bucket, run, hist, killed, fnvars >>

\* the client's PUT to a presigned URL stores an object under the URL's key
put_object(object_key) ==
    /\ object_key \in billing.urls
    /\ bucket' = bucket \cup {object_key}
    /\ UNCHANGED << videos, jobs, metrics, fs, run, hist, killed, fnvars, billing >>

\* POST /uploads/complete: the object must be in the store and the video the
\* caller's (and, in pay-first mode, the key the reserved one); size and
\* payment fields are then set from the size the request declares
complete_upload(user, video_id, object_key, size_bytes) ==
    /\ object_key \in bucket
    /\ FindVideo(video_id, user)
    /\ ~(billing.mode /\ videos[video_id].object_key # object_key)
    /\ videos' = [videos EXCEPT ![video_id] =
                     [@ EXCEPT !.upload_status = "uploaded",
                               !.size_bytes = size_bytes,
                               !.payment_required = size_bytes > PAYMENT_THRESHOLD,
                               !.payment_completed =
                                   @ \/ size_bytes <= PAYMENT_THRESHOLD]]
    /\ UNCHANGED << jobs, metrics, fs, bucket, run, hist, killed, fnvars, billing >>

\* POST /billing/checkout: an order is created for an unpaid video and a
\* pending payment recorded under the order's id
create_checkout(user, video_id, mode, order_id) ==
    /\ FindVideo(video_id, user)
    /\ ~videos[video_id].payment_completed
    /\ mode = "one_time"
    /\ order_id \notin DOMAIN billing.payments
    /\ billing' = [billing EXCEPT !.payments = Put(@, order_id,
                      [user_id |-> user, video_id |-> video_id,
                       status |-> "pending", razorpay_order_id |-> order_id,
                       amount |-> calculate_quote(videos[video_id].size_bytes,
                                                  mode).amount])]
    /\ UNCHANGED << videos, jobs, metrics, fs, bucket, run, hist, killed, fnvars >>

\* POST /billing/webhook: a signed payment.captured event for a recorded order
\* completes the payment and clears the order's video
billing_webhook(signature_ok, event, order_id) ==
    /\ signature_ok
    /\ event = "payment.captured"
    /\ order_id \in DOMAIN billing.payments
    /\ LET payment == billing.payments[order_id]
       IN  /\ billing' = [billing EXCEPT
                             !.payments[order_id].status = "completed",
                             !.confirmed = @ \cup {payment.video_id}]
           /\ videos' = MarkPaid(videos, payment.video_id)
    /\ UNCHANGED << jobs, metrics, fs, bucket, run, hist, killed, fnvars >>

\* POST /billing/verify: a pending payment of the caller for the video, with
\* a valid signature, captured and of the recorded amount (in paise),
\* is completed and clears the video
verify_payment(user, video_id, order_id, signature_ok, rp_status, rp_amount) ==
    /\ order_id \in DOMAIN billing.payments
    /\ billing.payments[order_id].user_id = user
    /\ billing.payments[order_id].video_id = video_id
    /\ billing.payments[order_id].status # "completed"
    /\ signature_ok
    /\ rp_status = "captured"
    /\ rp_amount = billing.payments[order_id].amount * 100
    /\ billing' = [billing EXCEPT !.payments[order_id].status = "completed",
                                  !.confirmed = @ \cup {video_id}]
    /\ videos' = IF FindVideo(video_id, user) THEN MarkPaid(videos, video_id)
                 ELSE videos
    /\ UNCHANGED << jobs, metrics, fs, bucket, run, hist, killed, fnvars >>

\* inputs of the endpoints
PayUsers == {"user_1", "user_2"}
VideoIds == {"vid_1", "vid_2"}
OrderIds == {"order_1"}
Uuids == {"0f3a"}
Filenames == {"my clip.mp4"}
Exts == {".MP4", "exe"}
Sizes == {PAYMENT_THRESHOLD, PAYMENT_THRESHOLD + 1}
Events == {"payment.captured", "payment.failed"}
RpStatuses == {"captured", "authorized"}
RpAmounts == {4900, 9900}
CheckoutModes == {"one_time", "subscription"}

\* the keys a client can name: those in the store and those of its videos
KnownKeys == bucket \cup {videos[v].object_key : v \in DOMAIN videos}

PayInit ==
    /\ videos = << >>
    /\ jobs = << >>
    /\ metrics = 0
    /\ fs = << >>
    /\ bucket = {}
    /\ run = [j \in AllJobs |-> InitRun]
    /\ hist = [j \in AllJobs |-> InitHist]
    /\ killed = FALSE
    /\ call = NoCall
    /\ ret = << >>
    /\ \E mode \in BOOLEAN : billing = NoBilling(mode)

PayReserve ==
    \E user \in PayUsers, video_id \in VideoIds, filename \in Filenames,
       size_bytes \in Sizes, ext \in Exts :
        reserve_upload(user, video_id, filename, size_bytes, ext)

PayInitUpload ==
    \E user \in PayUsers, video_id \in VideoIds \cup {NoneVal},
       filename \in Filenames, size_bytes \in Sizes, ext \in Exts,
       uuid \in Uuids :
        init_upload(user, video_id, filename, size_bytes, ext, uuid)

PayPut == \E object_key \in billing.urls : put_object(object_key)

PayComplete ==
    \E user \in PayUsers, video_id \in VideoIds, object_key \in KnownKeys,
       size_bytes \in Sizes :
        complete_upload(user, video_id, object_key, size_bytes)

PayCheckout ==
    \E user \in PayUsers, video_id \in VideoIds, mode \in CheckoutModes,
       order_id \in OrderIds :
        create_checkout(user, video_id, mode, order_id)

PayWebhook ==
    \E signature_ok \in BOOLEAN, event \in Events, order_id \in OrderIds :
        billing_webhook(signature_ok, event, order_id)

PayVerify ==
    \E user \in PayUsers, video_id \in VideoIds, order_id \in OrderIds,
       signature_ok \in BOOLEAN, rp_status \in RpStatuses,
       rp_amount \in RpAmounts :
        verify_payment(user, video_id, order_id, signature_ok, rp_status,
                       rp_amount)

PayCreateJob ==
    (\E j \in RunJobs, user \in PayUsers, video_id \in VideoIds :
        create_job(j, user, video_id, PromptE2E))
    /\ UNCHANGED << fnvars, billing >>

PayNext ==
    \/ PayReserve \/ PayInitUpload \/ PayPut \/ PayComplete \/ PayCheckout
    \/ PayWebhook \/ PayVerify \/ PayCreateJob

PaySpec == PayInit /\ [][PayNext]_vars

(***************************************************************************)
(* Properties                                                              *)
(***************************************************************************)

Finished(j) == run[j].pc = "finished"

Created(j) == j \in DOMAIN jobs

IsProbe(e) == e.ev = "probe"
IsSleep(e) == e.ev = "sleep"

\* the answers to the probes of job j's guard, and the delays of its sleeps
Answers(j) == LET g == SelectSeq(hist[j].guard, IsProbe)
              IN  [k \in 1..Len(g) |-> g[k].ans]
Sleeps(j) == LET g == SelectSeq(hist[j].guard, IsSleep)
             IN  [k \in 1..Len(g) |-> g[k].delay]

\* the guard returned to process_job without raising
GuardReturned(j) == run[j].pc # "guard" /\ run[j].exc.step # "guard"

\* the run is past the try block
RunEnding(j) == run[j].pc \in {"except", "cleanup", "finished"}

\* C1: for a prompt with the clauses "Keep: 0-10, 10-20" and "Order: 2,1",
\* the ordered segment list process_job builds is [10-20, 0-10]
C1_OrderClauseDecidesOrder ==
    \A j \in DOMAIN jobs :
        (jobs[j].prompt_text \in OrderedPrompts /\ run[j].ordered # << >>)
        => [k \in 1..Len(run[j].ordered) |->
               << run[j].ordered[k].start, run[j].ordered[k].end >>]
           = << << "10", "20" >>, << "0", "10" >> >>

AllowedChanges ==
    { << "queued", "processing" >>, << "processing", "done" >>,
      << "processing", "failed" >> }

\* C2: every change of a job's persisted status is queued->processing,
\* processing->done or processing->failed, so processing is entered at most
\* once and done and failed are never left
C2_StatusMachine ==
    [][\A j \in DOMAIN jobs :
          jobs'[j].status # jobs[j].status
          => << jobs[j].status, jobs'[j].status >> \in AllowedChanges]_vars

FailureSteps ==
    {"lookup", "validate", "guard", "download", "transcode", "upload", "verify"}

OutputVerified(j) ==
    hist[j].heads = 1 /\ run[j].exc.step # "verify" /\ run[j].pc # "persist"

\* C5: for the prompt "Keep: 00:00-00:05, 00:10-00:15. Order: 2,1. Quality:
\* high." validation never fails and, when the object store and the
\* transcoder succeed, the status goes queued -> processing -> done, the
\* output format is mp4 and the transcoder is given crf 20
C5_EndToEnd ==
    \A j \in DOMAIN jobs :
        jobs[j].prompt_text = PromptE2E
        => /\ run[j].exc.step # "validate"
           /\ OutputVerified(j)
              => /\ SubSeq(hist[j].status, 1, 3) = << "queued", "processing", "done" >>
                 /\ run[j].out_fmt = "mp4"
                 /\ jobs[j].output_key = OutputKey(jobs[j].user_id, j, "mp4")
                 /\ Len(hist[j].spawns) = 1
                 /\ hist[j].spawns[1].crf = 20
           /\ (Finished(j) /\ run[j].exc = NoExc) => jobs[j].status = "done"

C5_Witness ==
    \E j \in DOMAIN jobs :
        /\ jobs[j].prompt_text = PromptE2E
        /\ Finished(j) /\ jobs[j].status = "done"
        /\ hist[j].status = << "queued", "processing", "done" >>

\* the transcoder of job j's run exited with a non-zero status
TranscoderFailed(j) ==
    Len(hist[j].exits) = 1 /\ hist[j].exits[1].returncode # 0

\* error_message is "ffmpeg failed: " and then the first
\* min(len, 2000) characters of the diagnostic text
ExcerptBounded(j) ==
    LET msg == jobs[j].error_message
        head == "ffmpeg failed: "
        diag == hist[j].exits[1].stderr
    IN  /\ StartsWith(msg, head)
        /\ Len(msg) - Len(head) = Min(Len(diag), ExcerptLimit)
        /\ StartsWith(diag, From(msg, Len(head)))

NoLocalFiles(j) ==
    /\ ~Exists(fs, run[j].input_path)
    /\ ~Exists(fs, run[j].output_path)

Attempted(j, what) == \E k \in 1..Len(hist[j].unlinks) : hist[j].unlinks[k] = what

\* C7: at the end of a run that resolved its paths, the deletion of each
\* local file still there was attempted, whether or not the deletion of the
\* input file raised, and no deletion error is propagated
C7_BothDeletionsAttempted ==
    \A j \in RunJobs :
        Finished(j)
        => /\ run[j].result = "returned"
           /\ Exists(fs, run[j].input_path) => Attempted(j, "input")
           /\ Exists(fs, run[j].output_path) => Attempted(j, "output")

NotFound3 == << "not_found", "not_found", "not_found" >>

\* C8: no probe and no sleep follows a successful probe; three not-found
\* answers leave the guard probing, and a fourth answer of success makes it
\* return after 4 probes and the sleeps 0.4, 0.8, 1.6
C8_GuardStopsOnSuccess ==
    \A j \in RunJobs :
        /\ \A k \in 1..Len(hist[j].guard) :
              (IsProbe(hist[j].guard[k]) /\ hist[j].guard[k].ans = "ok")
              => k = Len(hist[j].guard) /\ GuardReturned(j)
        /\ Answers(j) = NotFound3 => run[j].pc = "guard"
        /\ Answers(j) = NotFound3 \o << "ok" >>
           => GuardReturned(j) /\ Sleeps(j) = << 4, 8, 16 >>

C8_Witness ==
    \E j \in RunJobs :
        /\ Answers(j) = NotFound3 \o << "ok" >>
        /\ Finished(j) /\ jobs[j].status = "done"

\* C9: a probe error that is not of the not-found class is the guard's last
\* event: no sleep and no probe follows it, nothing is downloaded, and the
\* run ends failed with that error
C9_OtherErrorsPropagate ==
    \A j \in RunJobs :
        \A k \in 1..Len(hist[j].guard) :
            (IsProbe(hist[j].guard[k]) /\ hist[j].guard[k].ans \notin {"ok", "not_found"})
            => /\ k = Len(hist[j].guard)
               /\ RunEnding(j)
               /\ run[j].exc = HeadError(hist[j].guard[k].ans)
               /\ hist[j].downloads = 0
               /\ Finished(j)
                  => /\ jobs[j].status = "failed"
                     /\ jobs[j].error_message = run[j].exc.msg

C9_Witness ==
    \E j \in RunJobs :
        /\ Answers(j) = << "not_found", "403" >>
        /\ Finished(j) /\ jobs[j].status = "failed"

\* C10: the guard issues at most 6 probes; when all 6 answer not-found it
\* fails with "Object not found after retries", the download is never
\* started and the run ends failed
C10_GuardBounded ==
    \A j \in RunJobs :
        /\ Len(Answers(j)) <= Attempts
        /\ (Len(Answers(j)) = Attempts
            /\ \A k \in 1..Attempts : Answers(j)[k] = "not_found")
           => /\ RunEnding(j)
              /\ run[j].exc = Exc("RuntimeError",
                                  "Object not found after retries: " \o run[j].input_key,
                                  "guard")
              /\ hist[j].downloads = 0
              /\ Finished(j) => jobs[j].status = "failed"

C10_Witness ==
    \E j \in RunJobs :
        /\ Len(Answers(j)) = Attempts
        /\ \A k \in 1..Attempts : Answers(j)[k] = "not_found"
        /\ Finished(j) /\ jobs[j].status = "failed"

EmptyPlanMessage == "No segments found in prompt. Use: Keep: 00:00-00:10"

\* job j's run made no request to the object store and spawned no transcoder
NoStoreNoSpawn(j) ==
    /\ hist[j].guard = << >> /\ hist[j].downloads = 0
    /\ hist[j].uploads = << >> /\ hist[j].heads = 0
    /\ hist[j].spawns = << >> /\ hist[j].exits = << >>

\* C11: a job whose parsed plan has no segment makes no object-store
\* request and spawns no transcoder, and its run, once the video record was
\* found, ends failed with "No segments found in prompt...", whatever
\* order:, output: or quality: clauses the prompt has
C11_EmptyPlanFails ==
    \A j \in DOMAIN jobs :
        jobs[j].parsed_prompt.segments = << >>
        => /\ NoStoreNoSpawn(j)
           /\ run[j].exc.step \in {NoneVal, "lookup", "validate"}
           /\ run[j].exc.step = "validate"
              => run[j].exc = Exc("RuntimeError", EmptyPlanMessage, "validate")
           /\ (Finished(j) /\ run[j].exc.step # "lookup")
              => /\ jobs[j].status = "failed"
                 /\ jobs[j].error_message = EmptyPlanMessage
                 /\ hist[j].status = << "queued", "processing", "failed" >>

C11_Witness ==
    \E j \in DOMAIN jobs :
        /\ jobs[j].prompt_text = "Quality: high. Order: 2,1. Output: mkv"
        /\ jobs[j].parsed_prompt.segments = << >>
        /\ Finished(j) /\ jobs[j].status = "failed"
        /\ jobs[j].error_message = EmptyPlanMessage

\* both timestamps of the segment resolve and the end is not after the start
BadRange(seg) ==
    /\ Resolve(seg.start).ok /\ Resolve(seg.end).ok
    /\ Resolve(seg.end).ms <= Resolve(seg.start).ms

Resolvable(seg) == Resolve(seg.start).ok /\ Resolve(seg.end).ok

\* the first segment of the final order whose range is bad, all segments
\* before it resolving
FirstBadRange(ordered) ==
    CHOOSE k \in 1..Len(ordered) :
        /\ BadRange(ordered[k])
        /\ \A m \in 1..(k - 1) : Resolvable(ordered[m]) /\ ~BadRange(ordered[m])

\* the filter graph was compiled, or its compilation raised
Compiled(j) ==
    /\ hist[j].downloads = 1
    /\ run[j].pc \notin {"download", "compile"}
    /\ run[j].exc.step # "download"

\* C12: every filter graph given to the transcoder has end > start in each
\* of its trim entries; a run whose final order has a segment with
\* end <= start spawns no transcoder, and its compilation fails with
\* "Invalid segment: <start>-<end>" for the first such segment (when the
\* segments before it resolve)
C12_RangesAreValid ==
    \A j \in DOMAIN jobs :
        /\ \A n \in 1..Len(hist[j].spawns) :
              \A k \in 1..Len(hist[j].spawns[n].filter.parts) :
                  hist[j].spawns[n].filter.parts[k].end
                      > hist[j].spawns[n].filter.parts[k].start
        /\ (\E k \in 1..Len(run[j].ordered) : BadRange(run[j].ordered[k]))
           => /\ hist[j].spawns = << >>
              /\ Compiled(j) => run[j].exc.step = "validate"
              /\ (Compiled(j)
                  /\ \E k \in 1..Len(run[j].ordered) :
                         /\ BadRange(run[j].ordered[k])
                         /\ \A m \in 1..(k - 1) : Resolvable(run[j].ordered[m]))
                 => LET seg == run[j].ordered[FirstBadRange(run[j].ordered)]
                    IN  run[j].exc =
                            Exc("RuntimeError",
                                "Invalid segment: " \o seg.start \o "-" \o seg.end,
                                "validate")
              /\ Finished(j) => jobs[j].status = "failed"

C12_Witness ==
    \E j \in DOMAIN jobs :
        /\ jobs[j].prompt_text = "Keep: 1:00-60"
        /\ Finished(j) /\ jobs[j].status = "failed"
        /\ jobs[j].error_message = "Invalid segment: 1:00-60"
        /\ hist[j].downloads = 1

NoValidOrderMessage == "Segment order invalid / no segments matched"

\* C13: a job with the prompt "Keep: 0-10. Order: 5" (one segment, an order
\* list naming no parsed segment) never passes validation: it makes no
\* request to the object store and its run ends failed with "Segment order
\* invalid / no segments matched"
C13_UnmatchedOrderFails ==
    \A j \in DOMAIN jobs :
        jobs[j].prompt_text = PromptOrder5
        => /\ NoStoreNoSpawn(j)
           /\ (Finished(j) /\ run[j].exc.step # "lookup")
              => /\ jobs[j].status = "failed"
                 /\ jobs[j].error_message = NoValidOrderMessage

\* C14: for the prompt "Keep: 0-1, 2-3, 4-5. Order: 1,3" the validated
\* segment sequence is segments 1 and 3, in that order
C14_OrderListFilters ==
    \A j \in DOMAIN jobs :
        jobs[j].prompt_text = PromptOrder13
        => /\ run[j].exc.step # "validate"
           /\ run[j].input_path # NoneVal
              => SegmentIndices(run[j].ordered) = << 1, 3 >>

\* the call of fn returned
ReturnedFrom(fn) == call.fn = fn /\ Returned

\* C15: the indices of the segments of the plan parse_prompt returns are
\* pairwise distinct, for every prompt
C15_IndicesDistinct ==
    ReturnedFrom("parse_prompt")
    => LET segments == ret[1].value.segments
       IN  \A a, b \in 1..Len(segments) :
               a # b => segments[a].index # segments[b].index

PlanFields == {"segments", "order", "output_format", "quality"}

\* C16: parse_prompt raises on no input text: it returns a plan with the
\* fields segments, order, output_format and quality, each segment having
\* an index, a start and an end
C16_ParseNeverFails ==
    ReturnedFrom("parse_prompt")
    => /\ ~ret[1].raised
       /\ DOMAIN ret[1].value = PlanFields
       /\ \A k \in 1..Len(ret[1].value.segments) :
              DOMAIN ret[1].value.segments[k] = {"index", "start", "end"}

C16_Witness ==
    /\ ReturnedFrom("parse_prompt")
    /\ call.arg = "Order: x, 1. keep: a-b-c, 1-2, 7"
    /\ ~ret[1].raised
    /\ ret[1].value.segments = << [index |-> 2, start |-> "1", end |-> "2"] >>

\* the colon-separated fields of the timestamp text, as written
TsFields == Split(call.arg, ":")

\* C17: ts_to_seconds gives SS for one field, 60*MM+SS for two fields and
\* 3600*HH+60*MM+SS for three fields ("90" -> 90, "1:30" -> 90,
\* "01:01:30" -> 3690), and fails on a text of four or more fields
C17_TimestampResolution ==
    ReturnedFrom("ts_to_seconds")
    => /\ (Len(TsFields) <= 3 /\ \A k \in 1..Len(TsFields) : AllDigits(TsFields[k]))
          => /\ ret[1].ok
             /\ Len(TsFields) = 1 => ret[1].ms = 1000 * IntVal(TsFields[1])
             /\ Len(TsFields) = 2
                => ret[1].ms = 1000 * (60 * IntVal(TsFields[1]) + IntVal(TsFields[2]))
             /\ Len(TsFields) = 3
                => ret[1].ms = 1000 * (3600 * IntVal(TsFields[1])
                                       + 60 * IntVal(TsFields[2]) + IntVal(TsFields[3]))
       /\ call.arg = "90" => ret[1].ms = 90000
       /\ call.arg = "1:30" => ret[1].ms = 90000
       /\ call.arg = "01:01:30" => ret[1].ms = 3690000
       /\ Len(TsFields) >= 4
          => ~ret[1].ok /\ ret[1].err = "Invalid timestamp: " \o Strip(call.arg)

C17_Witness ==
    /\ ReturnedFrom("ts_to_seconds")
    /\ call.arg = "01:01:30"
    /\ ret[1].ok /\ ret[1].ms = 3690000

\* C18 as stated: high -> 20, medium -> 23, low -> 28, and every other
\* value -> 23
C18_QualityMappingLiteral ==
    ReturnedFrom("quality_to_crf")
    => ret[1] = (CASE call.arg = "high" -> 20
                   [] call.arg = "medium" -> 23
                   [] call.arg = "low" -> 28
                   [] OTHER -> 23)

\* C18 as amended: the quality name is compared in lower case: high -> 20,
\* medium -> 23, low -> 28 in any letter case, and every other value,
\* a missing or empty quality included, -> 23
C18_QualityMapping ==
    ReturnedFrom("quality_to_crf")
    => ret[1] = (CASE Lower(call.arg) = "high" -> 20
                   [] Lower(call.arg) = "medium" -> 23
                   [] Lower(call.arg) = "low" -> 28
                   [] OTHER -> 23)

C18_Witness ==
    /\ ReturnedFrom("quality_to_crf")
    /\ call.arg = "HIGH"
    /\ ret[1] = 20

\* the step is a step of job j's run (or the creation of job j)
Stepped(j) == run'[j] # run[j]

\* the step creates, rewrites or deletes the local file
FileChanged(path) ==
    \/ Exists(fs, path) # Exists(fs', path)
    \/ Exists(fs, path) /\ Exists(fs', path) /\ fs[path] # fs'[path]

\* the step inserts or updates the job record
JobChanged(i) ==
    \/ (i \in DOMAIN jobs) # (i \in DOMAIN jobs')
    \/ i \in DOMAIN jobs /\ i \in DOMAIN jobs' /\ jobs[i] # jobs'[i]

\* the local file is named <j>_input.* or <j>_output.*
OwnsFile(j, path) ==
    \/ StartsWith(path, UPLOAD_DIR \o "/" \o j \o "_input.")
    \/ StartsWith(path, OUTPUT_DIR \o "/" \o j \o "_output.")

\* the object key is outputs/<user>/<j>.<format> for the job's user
OwnsKey(j, key) ==
    /\ j \in DOMAIN jobs
    /\ StartsWith(key, "outputs/" \o jobs[j].user_id \o "/" \o j \o ".")

\* C19: under every interleaving of the runs of distinct jobs, a step of
\* job J's run writes and deletes only local files named <J>_input.* and
\* <J>_output.*, writes only object keys outputs/<user>/<J>.<format> and
\* changes only the job record J, and none of these belongs to another job
C19_RunsAreIsolated ==
    [][\A j \in AllJobs :
          Stepped(j)
          => /\ \A i \in AllJobs \ {j} : ~Stepped(i)
             /\ \A path \in DOMAIN fs \cup DOMAIN fs' :
                   FileChanged(path)
                   => /\ OwnsFile(j, path)
                      /\ \A i \in AllJobs \ {j} : ~OwnsFile(i, path)
             /\ \A key \in bucket' \ bucket :
                   /\ OwnsKey(j, key)
                   /\ \A i \in AllJobs \ {j} : ~OwnsKey(i, key)
             /\ \A i \in AllJobs : JobChanged(i) => i = j]_vars

\* both runs are under way, each with its input file on disk, and the
\* output of one of them is already written
C19_Witness ==
    /\ run["job_1"].pc = "transcode" /\ run["job_2"].pc = "upload"
    /\ Exists(fs, run["job_1"].input_path)
    /\ Exists(fs, run["job_2"].input_path)
    /\ Exists(fs, run["job_2"].output_path)
    /\ run["job_1"].output_path # run["job_2"].output_path

\* the done write of job j's run was made
WroteDone(j) == \E k \in 1..Len(hist[j].status) : hist[j].status[k] = "done"

\* C20: the done write is made only after the output was uploaded to the
\* job's output key and the one existence check on that key succeeded, the
\* done record carries that key and an expiry timestamp, and a failing
\* check is not repeated: the job is failed after exactly one check
C20_DoneAfterVerifiedUpload ==
    \A j \in DOMAIN jobs :
        /\ hist[j].heads <= 1
        /\ WroteDone(j)
           => /\ hist[j].uploads = << run[j].output_key >>
              /\ run[j].output_key \in bucket
              /\ run[j].output_key = OutputKey(jobs[j].user_id, j, run[j].out_fmt)
              /\ hist[j].heads = 1
              /\ run[j].exc.step # "verify"
        /\ jobs[j].status = "done"
           => /\ jobs[j].output_key = run[j].output_key
              /\ jobs[j].output_expires_at = ExpiryStamp
        /\ run[j].exc.step = "verify"
           => /\ hist[j].heads = 1
              /\ ~WroteDone(j)
              /\ Finished(j)
                 => /\ jobs[j].status = "failed"
                    /\ jobs[j].error_message = run[j].exc.msg
                    /\ jobs[j].output_key = NoneVal

C20_Witness ==
    \E j \in DOMAIN jobs :
        /\ jobs[j].status = "done" /\ run[j].pc = "metrics"
        /\ hist[j].heads = 1
        /\ jobs[j].output_key \in bucket
        /\ jobs[j].output_expires_at = ExpiryStamp

\* job j's run looked its video up, made a request to the object store,
\* wrote a local file or spawned a transcoder
Worked(j) ==
    \/ run[j].input_key # NoneVal \/ run[j].exc.step = "lookup"
    \/ run[j].pc \notin {"idle", "start", "mark", "lookup", "finished"}
    \/ ~NoStoreNoSpawn(j)
    \/ \E path \in DOMAIN fs : OwnsFile(j, path)

\* C21: a run that looked its video up, made an object-store request, wrote
\* a local file or spawned a transcoder had persisted processing before, as
\* the first write after queued; the video lookup itself is made with the
\* job persisted as processing
C21_ProcessingComesFirst ==
    \A j \in DOMAIN jobs :
        /\ Worked(j)
           => /\ Len(hist[j].status) >= 2
              /\ hist[j].status[1] = "queued"
              /\ hist[j].status[2] = "processing"
        /\ run[j].pc = "lookup" => jobs[j].status = "processing"

C21_Witness ==
    \E j \in DOMAIN jobs :
        /\ run[j].pc = "download"
        /\ hist[j].guard # << >>
        /\ hist[j].status = << "queued", "processing" >>
        /\ jobs[j].status = "processing"

\* C22: a job whose final order has a segment with an unparsable timestamp
\* or with end <= start is failed before its run makes any request to the
\* object store: no probe of the guard, no download
C22_ValidationBeforeStore ==
    \A j \in DOMAIN jobs :
        (\E k \in 1..Len(run[j].ordered) :
            ~Resolvable(run[j].ordered[k]) \/ BadRange(run[j].ordered[k]))
        => /\ hist[j].guard = << >>
           /\ hist[j].downloads = 0

\* C23: the segments parsed from one keep: clause have the indices
\* 1, 2, ..., k in left-to-right order, k being the number of well-formed
\* pairs: "Keep: foo, 0-10" yields one segment, of index 1
C23_IndicesSkipMalformed ==
    (ReturnedFrom("parse_prompt") /\ call.arg \in Clauses \cup KeepPrompts)
    => /\ \A k \in 1..Len(ret[1].value.segments) : ret[1].value.segments[k].index = k
       /\ call.arg = PromptFoo
          => ret[1].value.segments = << [index |-> 1, start |-> "0", end |-> "10"] >>

\* C29: "Keep: 0.5-1.5" is parsed into one segment with start 0.5 and end
\* 1.5
C29_FractionalSeconds ==
    (ReturnedFrom("parse_prompt") /\ call.arg = PromptFraction)
    => /\ Len(ret[1].value.segments) = 1
       /\ ret[1].value.segments[1].start = "0.5"
       /\ ret[1].value.segments[1].end = "1.5"

\* C24: a run spawns at most one transcoder, and only after its one
\* download returned with the input file there; after a non-zero exit the
\* run spawns nothing more, uploads nothing and checks no output
C24_OneSpawnNoRetry ==
    \A j \in DOMAIN jobs :
        /\ Len(hist[j].spawns) <= 1
        /\ Len(hist[j].exits) <= Len(hist[j].spawns)
        /\ hist[j].spawns # << >>
           => /\ hist[j].downloads = 1
              /\ run[j].exc.step \notin {"lookup", "validate", "guard", "download"}
              /\ hist[j].spawns[1].input = run[j].input_path
        /\ TranscoderFailed(j)
           => /\ Len(hist[j].spawns) = 1
              /\ hist[j].uploads = << >>
              /\ hist[j].heads = 0
              /\ run[j].output_key \notin bucket
              /\ ~WroteDone(j)
              /\ run[j].pc \in {"except", "cleanup", "finished"}

C24_Witness ==
    \E j \in DOMAIN jobs :
        /\ Finished(j) /\ TranscoderFailed(j)
        /\ hist[j].exits[1].stderr = "moov atom not found"
        /\ Len(hist[j].spawns) = 1
        /\ jobs[j].status = "failed"

EmptyInputMessage == "Input download failed / empty file"
EmptyOutputMessage == "Output not created / empty"

\* the steps between the download and the cleanup, and those between the
\* transcoder's exit and the cleanup
AfterDownload == {"compile", "transcode", "upload", "verify", "persist", "metrics"}
AfterTranscode == {"upload", "verify", "persist", "metrics"}

\* the local file is there and has at least one byte
NonEmptyFile(path) == path \in DOMAIN fs /\ fs[path] > 0

\* C25: the run goes past the download only with a non-empty local input
\* file, and otherwise fails with "Input download failed / empty file"
\* without a spawn; it goes past a transcoder exit of 0 only with a
\* non-empty local output file, and otherwise fails with "Output not
\* created / empty" without an upload
C25_FileChecksGate ==
    \A j \in DOMAIN jobs :
        /\ run[j].pc \in AfterDownload => NonEmptyFile(run[j].input_path)
        /\ hist[j].spawns # << >> => run[j].exc.step # "download"
        /\ (run[j].exc.step = "download" /\ run[j].exc.cls = "RuntimeError")
           => /\ run[j].exc.msg = EmptyInputMessage
              /\ hist[j].spawns = << >>
              /\ run[j].pc = "except" => ~NonEmptyFile(run[j].input_path)
              /\ Finished(j) => /\ jobs[j].status = "failed"
                                /\ jobs[j].error_message = EmptyInputMessage
        /\ run[j].pc \in AfterTranscode
           => NonEmptyFile(run[j].output_path) /\ hist[j].exits[1].returncode = 0
        /\ (run[j].exc.step = "transcode" /\ Len(hist[j].exits) = 1
            /\ hist[j].exits[1].returncode = 0)
           => /\ run[j].exc.msg = EmptyOutputMessage
              /\ hist[j].uploads = << >>
              /\ run[j].pc = "except" => ~NonEmptyFile(run[j].output_path)
              /\ Finished(j) => /\ jobs[j].status = "failed"
                                /\ jobs[j].error_message = EmptyOutputMessage

\* the transcoder exited 0 leaving an empty output file, and the run failed
C25_Witness ==
    \E j \in DOMAIN jobs :
        /\ run[j].pc = "cleanup"
        /\ Len(hist[j].exits) = 1 /\ hist[j].exits[1].returncode = 0
        /\ Exists(fs, run[j].output_path) /\ fs[run[j].output_path] = 0
        /\ jobs[j].status = "failed"
        /\ jobs[j].error_message = EmptyOutputMessage

\* the trim entry the graph must have for the segment at 0-based position i
\* of job j's final order, on the video or the audio stream
TrimOf(j, i, stream) ==
    [input |-> IF stream = "v" THEN "0:v" ELSE "0:a",
     op |-> IF stream = "v" THEN "trim" ELSE "atrim",
     start |-> Resolve(run[j].ordered[i + 1].start).ms,
     end |-> Resolve(run[j].ordered[i + 1].end).ms,
     reset |-> IF stream = "v" THEN "setpts=PTS-STARTPTS" ELSE "asetpts=PTS-STARTPTS",
     label |-> stream \o ToString(i)]

\* C26: the filter graph given to the transcoder for n ordered segments has
\* exactly 2n trim entries, at position i a video trim labelled v<i> and an
\* audio trim labelled a<i> with the i-th segment's start and end, each
\* resetting its timestamps, and one concat over [v0][a0]...[v(n-1)][a(n-1)]
\* with n, v=1, a=1 and the outputs outv and outa
C26_FilterGraph ==
    \A j \in DOMAIN jobs :
        \A m \in 1..Len(hist[j].spawns) :
            LET fc == hist[j].spawns[m].filter
                n == Len(run[j].ordered)
            IN  /\ n >= 1
                /\ Len(fc.parts) = 2 * n
                /\ \A i \in 0..(n - 1) :
                      /\ fc.parts[2 * i + 1] = TrimOf(j, i, "v")
                      /\ fc.parts[2 * i + 2] = TrimOf(j, i, "a")
                      /\ fc.concat.inputs[2 * i + 1] = "v" \o ToString(i)
                      /\ fc.concat.inputs[2 * i + 2] = "a" \o ToString(i)
                /\ Len(fc.concat.inputs) = 2 * n
                /\ fc.concat.n = n /\ fc.concat.v = 1 /\ fc.concat.a = 1
                /\ fc.concat.outputs = << "outv", "outa" >>

C26_Witness ==
    \E j \in DOMAIN jobs :
        /\ jobs[j].prompt_text = PromptOrder13
        /\ Len(hist[j].spawns) = 1
        /\ Len(hist[j].spawns[1].filter.parts) = 6
        /\ hist[j].spawns[1].filter.parts[6].label = "a2"
        /\ hist[j].spawns[1].filter.parts[6].start = 4000

\* C27: the k-th sleep of a guard call lasts min(0.4 * 2^(k-1), 3.0)
\* seconds (in tenths: 4, 8, 16, 30, 30, ...), never more than 3.0 s, and
\* no sleep is shorter than the one before
C27_Backoff ==
    \A j \in AllJobs :
        /\ \A k \in 1..Len(Sleeps(j)) :
              /\ Sleeps(j)[k] = Min(4 * 2 ^ (k - 1), 30)
              /\ Sleeps(j)[k] <= 30
              /\ k > 1 => Sleeps(j)[k] >= Sleeps(j)[k - 1]
        /\ Sleeps(j) = SubSeq(<< 4, 8, 16, 30, 30, 30 >>, 1, Len(Sleeps(j)))

C27_Witness ==
    \E j \in AllJobs :
        /\ Sleeps(j) = << 4, 8, 16, 30, 30 >>
        /\ run[j].pc = "guard"

RECURSIVE SumIncrements(_)
\* the increments made by the runs of the jobs in js
SumIncrements(js) ==
    IF js = {} THEN 0
    ELSE LET j == CHOOSE x \in js : TRUE
         IN  hist[j].increments + SumIncrements(js \ {j})

\* C28: a finished run that persisted done incremented the daily counter
\* exactly once, a run that ended in failed did not increment it, and the
\* counter is the sum of the increments of all runs
C28_CounterMatchesDone ==
    /\ metrics = SumIncrements(AllJobs)
    /\ \A j \in DOMAIN jobs :
          /\ (Finished(j) /\ WroteDone(j)) => hist[j].increments = 1
          /\ (Finished(j) /\ jobs[j].status = "failed") => hist[j].increments = 0

\* C30: a failed job has output_key null and error_message set; a done job
\* has output_key and output_expires_at set and error_message null
C30_ResultFieldsAgree ==
    \A j \in DOMAIN jobs :
        /\ jobs[j].status = "failed"
           => jobs[j].output_key = NoneVal /\ jobs[j].error_message # NoneVal
        /\ jobs[j].status = "done"
           => /\ jobs[j].output_key # NoneVal
              /\ jobs[j].output_expires_at # NoneVal
              /\ jobs[j].error_message = NoneVal

\* C31: a job exists for a video whose reservation required payment only if
\* a payment for that video was confirmed, by verify_payment or by a
\* payment.captured webhook
C31_PaymentGate ==
    \A j \in DOMAIN jobs :
        jobs[j].video_id \in billing.required
            => jobs[j].video_id \in billing.confirmed

\* the gate as far as it holds: in pay-first mode
C31_PaymentGatePayFirst == billing.mode => C31_PaymentGate

\* a job was created for a video reserved as paid-for, in pay-first mode
C31_PaidJobPayFirst ==
    /\ billing.mode
    /\ \E j \in DOMAIN jobs : jobs[j].video_id \in billing.required

====
